---- MODULE Spec2Model ----
(***************************************************************************)
(* Gym attendance backend: membership ledger, attendance sessions and the  *)
(* scheduled reconciliation jobs, modelled as a state machine over the     *)
(* MongoDB collections (users, attendances) and the in-flight handlers.    *)
(*                                                                         *)
(* A handler is split at the `await`s between which another handler can    *)
(* change what it has read; `save()` writes only the paths the handler     *)
(* modified (Mongoose change tracking), so a handler that loaded a         *)
(* document earlier overwrites exactly the fields it assigned.             *)
(*                                                                         *)
(* Time is counted in minutes.  Every handler reads the clock once and     *)
(* finishes within that minute, so the clock advances between handlers.    *)
(* A month is 30 days; day 0 of the time line is a Sunday.                 *)
(*                                                                         *)
(* `notices` holds the Notification documents written for the attendance   *)
(* handlers and the scheduled jobs; those of the membership requests are   *)
(* left out.                                                               *)
(***************************************************************************)
EXTENDS Integers, Sequences, FiniteSets, TLC

\* ---------------------------------------------------------------- bounds
MaxTicks == 2
MaxSessions == 2
MaxManual == 1
MaxOps == 1
MaxZones == 2
MaxNotices == 3
MaxFailures == 1

\* ------------------------------------------------------ program constants
MONTHLY_LIMIT == 26
OPEN_HOUR == 5
CLOSE_HOUR == 20
SATURDAY == 6
OFFICE_START_HOUR == 9
LATE_THRESHOLD == 15
GYM_RADIUS_METERS == 100
ZOMBIE_HOURS == 4

\* ---------------------------------------------------------------- calendar
Hours(h) == h * 60
DayLen == Hours(24)
MonthLen == 30 * DayLen
NoDate == 0 - 1

StartOfDay(t) == (t \div DayLen) * DayLen
HourOf(t) == (t % DayLen) \div 60
DayOfWeek(t) == (t \div DayLen) % 7
MonthOf(t) == t \div MonthLen

\* moment.add(n, 'months') for the plan a membership is bought for
PlanMonths(plan) ==
    CASE plan = "1-month" -> 1
      [] plan = "3-month" -> 3
      [] plan = "6-month" -> 6
      [] plan = "1-year" -> 12
      [] OTHER -> 1
AddPlan(t, plan) == t + PlanMonths(plan) * MonthLen

\* ------------------------------------------------------------------ domains
Users == {"m1", "m2"}
SweepProcs == {1, 2}
Attendees == {"m1"}
ClockInProcs == {1, 2}
StartTime == 28 * DayLen + Hours(9)
Deltas == {Hours(5), DayLen}
Dists == {100, 101}
NoLoc == 0 - 1
InitCounts == {0, 25}
Plans == {"1-month", "3-month"}
NoVal == "unset"
\* Location documents: a zone around the hardcoded gym and one 300 m away
ZonePositions == {0, 3000}
ZoneRadii == {100, 200}
LocationDocs == [pos : ZonePositions, radius : ZoneRadii, isActive : BOOLEAN]
LocationStores == UNION {[1..n -> LocationDocs] : n \in 0..MaxZones}
\* positions asked about: at, just inside and just outside the radii
Points == {0, 1000, 1001, 1004, 1005, 1996, 2000, 2001}

VARIABLES now, ticks, users, sessions, ci, co, aci, aco, zj, sw, manuals, ops,
          succ, closes, resp, expiryLog, zones, settings, env, geo, notices, failures

vars == <<now, ticks, users, sessions, ci, co, aci, aco, zj, sw, manuals, ops,
          succ, closes, resp, expiryLog, zones, settings, env, geo, notices, failures>>

\* ------------------------------------------------------------------ helpers
IdleCI == [pc |-> "idle", u |-> "m1", now |-> 0, dist |-> 0, lcount |-> 0, reset |-> FALSE, advisory |-> 0 - 1]
IdleCO == [pc |-> "idle", u |-> "m1", now |-> 0, sid |-> 0, dist |-> 0]
IdleACI == [pc |-> "idle", u |-> "m1", now |-> 0, lstatus |-> "pending", lcount |-> 0, lreset |-> 0]
IdleZJ == [pc |-> "idle", queue |-> <<>>]
IdleSW == [pc |-> "idle", now |-> 0, queue |-> <<>>, snap |-> <<>>, done |-> {}, moved |-> {}]

\* the response (or job log line) the current step sends, if any
Respond(op, u, code, n) == resp' = [op |-> op, u |-> u, code |-> code, n |-> n]
NoResponse == resp' = [op |-> "none", u |-> "m1", code |-> "none", n |-> 0]

\* the membership a new User document gets from the schema defaults
DefaultMembership(t) ==
    [registered |-> TRUE, plan |-> "none", status |-> "pending", expiryDate |-> NoDate,
     monthlyDayCount |-> 0, lastResetDate |-> t]
Unregistered ==
    [registered |-> FALSE, plan |-> "none", status |-> "pending", expiryDate |-> NoDate,
     monthlyDayCount |-> 0, lastResetDate |-> 0]
Membership(plan, status, expiry, count, reset) ==
    [registered |-> TRUE, plan |-> plan, status |-> status, expiryDate |-> expiry,
     monthlyDayCount |-> count, lastResetDate |-> reset]

\* A notice is a Notification document: its type, its recipient, the
\* threshold (days left) it is about, the expiry date or calendar day it is
\* about, and how many notices on the same matter the recipient has by now.
NoticesLike(N, type, u, key, about) ==
    {x \in N : x.type = type /\ x.u = u /\ x.key = key /\ x.about = about}
Notice(N, type, u, key, about) ==
    [type |-> type, u |-> u, key |-> key, about |-> about,
     n |-> Cardinality(NoticesLike(N, type, u, key, about)) + 1]

\* notificationService.sendNotification: the Notification document is created
\* and pushed to the recipient; when the store or the push service fails the
\* service catches the error, logs it and returns null to its caller
sendNotification(N, delivered, type, u, key, about) ==
    IF delivered THEN N \cup {Notice(N, type, u, key, about)} ELSE N
\* the staff account the aggregated notices go to
Staff == "staff"

\* Positions lie on a line through the hardcoded gym, which is at 0, and are
\* counted in tenths of a metre; radii are stored in metres.
PerMetre == 10
GYM_POSITION == 0
Abs(x) == IF x < 0 THEN 0 - x ELSE x
\* calculateDistance: the distance between two positions, in tenths of a metre
calculateDistance(a, b) == Abs(b - a)
\* Math.round of a distance, in whole metres
RoundMetres(d) == (d + 5) \div PerMetre
\* the radius itself left out
WithinRadiusStrict(d, radius) == d < radius * PerMetre
WithinRadius(d, radius) == d <= radius * PerMetre

\* Location.find({ isActive: true })
ActiveLocations(store) == SelectSeq(store, LAMBDA loc : loc.isActive)

Infinity == 0 - 1
NoDistance == 0 - 1
\* the loop of validateGeofence from location i on: the first location that
\* holds the point ends it, otherwise the least distance seen is reported
RECURSIVE NearestLocation(_, _, _, _)
NearestLocation(locations, p, i, minDistance) ==
    IF i > Len(locations)
    THEN [isValid |-> FALSE, distance |-> RoundMetres(minDistance)]
    ELSE LET dist == calculateDistance(locations[i].pos, p)
             least == IF minDistance = Infinity \/ dist < minDistance THEN dist ELSE minDistance
         IN  IF WithinRadius(dist, locations[i].radius)
             THEN [isValid |-> TRUE, distance |-> NoDistance]
             ELSE NearestLocation(locations, p, i + 1, least)

\* no fallback: every point refused when no location is active
HardcodedGymClosed(p) ==
    [isValid |-> FALSE, distance |-> RoundMetres(calculateDistance(GYM_POSITION, p))]

\* the answer for the hardcoded gym, given when no location is active
HardcodedGym(p) ==
    LET dist == calculateDistance(GYM_POSITION, p)
    IN  IF WithinRadius(dist, GYM_RADIUS_METERS)
        THEN [isValid |-> TRUE, distance |-> NoDistance]
        ELSE [isValid |-> FALSE, distance |-> RoundMetres(dist)]

\* validateGeofence for the point at position p
validateGeofence(store, p) ==
    LET locations == ActiveLocations(store)
    IN  IF Len(locations) = 0 THEN HardcodedGym(p)
        ELSE NearestLocation(locations, p, 1, Infinity)

\* the geofence verdict for a request sent dist metres from the hardcoded gym
GeofenceValid(dist) == validateGeofence(zones, dist * PerMetre).isValid

\* Attendance.findOne({userId, date}): the first matching document, 0 if none
SessionsOf(u, date) == {i \in 1..Len(sessions) : sessions[i].userId = u /\ sessions[i].date = date}
Min(S) == CHOOSE x \in S : \A y \in S : x <= y
FindOne(u, date) == IF SessionsOf(u, date) = {} THEN 0 ELSE Min(SessionsOf(u, date))

\* now.diff(officeStart, 'minutes') > LATE_THRESHOLD
\* late from the last minute of grace on
LateStatusAtThreshold(t) ==
    LET officeStart == StartOfDay(t) + Hours(env.startHour) + env.startMinute
    IN  IF t - officeStart >= env.lateThreshold THEN "late" ELSE "on-time"

LateStatus(t) ==
    LET officeStart == StartOfDay(t) + Hours(env.startHour) + env.startMinute
    IN  IF t - officeStart > env.lateThreshold THEN "late" ELSE "on-time"

\* clockOutLocation records who closed the session: the member's coordinates
\* ("member"), the staff's manual check-out ("staff"), or nothing
\* location is where the session was entered: the member's distance from the
\* hardcoded gym, in metres, or the gym itself (0) for an entry made by staff
NewSession(u, t, loc) ==
    [userId |-> u, date |-> StartOfDay(t), clockIn |-> t, clockOut |-> NoDate,
     status |-> LateStatus(t), location |-> loc, clockOutLocation |-> "none"]

\* handlers that have passed their checks and are about to create a session
Creators == Cardinality({c \in ClockInProcs : ci[c].pc = "create"}) + (IF aci.pc = "create" THEN 1 ELSE 0)
RoomToCreate == Len(sessions) + Creators < MaxSessions

\* --------------------------------------------------------------------- Init
InitMember1(c) == Membership("1-month", "active", StartTime + DayLen + Hours(1), c, StartTime)
LapsedMember == Membership("1-month", "active", StartTime - DayLen, 0, StartTime)

\* GymSettings.operatingHours with the schema defaults: closed on Saturday,
\* 05:00 to 20:00 on the other days; times in minutes of the day
DefaultHours ==
    [d \in 0..6 |-> [isOpen |-> d # SATURDAY, openTime |-> Hours(OPEN_HOUR), closeTime |-> Hours(CLOSE_HOUR)]]
DefaultSettings == [exists |-> TRUE, operatingHours |-> DefaultHours]
\* OFFICE_START_TIME and LATE_THRESHOLD_MINUTES when the environment sets neither
DefaultEnv == [startHour |-> OFFICE_START_HOUR, startMinute |-> 0, lateThreshold |-> LATE_THRESHOLD]
NoGeo == [p |-> 0, isValid |-> FALSE, distance |-> NoDistance, asked |-> FALSE]

\* the store and the handlers before any request, for a given set of members,
\* starting times, location stores, gym settings and environments
InitStored(members, attendances, times, stores, schedules, envs) ==
    /\ failures = {}
    /\ zones \in stores
    /\ settings \in schedules
    /\ env \in envs
    /\ geo = NoGeo
    /\ notices = {}
    /\ now \in times
    /\ ticks = 0
    /\ users \in members
    /\ sessions \in attendances
    /\ ci = [c \in ClockInProcs |-> IdleCI]
    /\ co = IdleCO
    /\ aci = IdleACI
    /\ aco = IdleCO
    /\ zj = IdleZJ
    /\ sw = [p \in SweepProcs |-> IdleSW]
    /\ manuals = 0
    /\ ops = 0
    /\ succ = [u \in Users |-> [month |-> MonthOf(now), n |-> users[u].monthlyDayCount]]
    /\ closes = [i \in 1..(MaxSessions + 1) |-> 0]
    /\ resp = [op |-> "none", u |-> "m1", code |-> "none", n |-> 0]
    /\ expiryLog = [u \in Users |-> [notified |-> 0, expired |-> 0]]

\* the same before any clock-in
InitConfigured(members, times, stores, schedules, envs) ==
    InitStored(members, {<<>>}, times, stores, schedules, envs)

\* the same with no Location document, the default settings and environment
InitWith(members) == InitConfigured(members, {StartTime}, {<<>>}, {DefaultSettings}, {DefaultEnv})

\* one member near the monthly limit or far from it
InitClockIn == InitWith({[u \in Users |-> IF u = "m1" THEN InitMember1(c) ELSE Unregistered] : c \in InitCounts})
\* one active member
InitSession == InitWith({[u \in Users |-> IF u = "m1" THEN InitMember1(0) ELSE Unregistered]})
\* an active member, and a second one not yet registered or lapsed since yesterday
InitLedger == InitWith({[u \in Users |-> IF u = "m1" THEN InitMember1(0) ELSE x] : x \in {Unregistered, LapsedMember}})

\* members whose membership has run its course or awaits approval
ExpiredMember == Membership("1-month", "expired", StartTime - DayLen, 0, StartTime)
PendingMember == Membership("1-month", "pending", AddPlan(StartTime, "1-month"), 0, StartTime)
\* an active member, and a second one in any stage of the membership cycle
InitMembership ==
    InitWith({[u \in Users |-> IF u = "m1" THEN InitMember1(0) ELSE x] :
                x \in {Unregistered, DefaultMembership(StartTime), PendingMember,
                       LapsedMember, ExpiredMember}})

\* -------------------------------------------------------------------- clock
Quiescent ==
    /\ \A c \in ClockInProcs : ci[c].pc = "idle"
    /\ co.pc = "idle" /\ aci.pc = "idle" /\ aco.pc = "idle"
    /\ zj.pc = "idle" /\ \A p \in SweepProcs : sw[p].pc = "idle"

Tick ==
    /\ ticks < MaxTicks
    /\ Quiescent
    /\ \E d \in Deltas : now' = now + d
    /\ ticks' = ticks + 1
    /\ NoResponse
    /\ UNCHANGED <<users, sessions, ci, co, aci, aco, zj, sw, manuals, ops, succ, closes, expiryLog, zones, settings, env, geo, notices, failures>>

\* ------------------------------------------------------------------ clockIn
WARNING_DAYS == 3
NoAdvisory == 0 - 1
\* expiryDate.diff(now, 'days'): whole days, the fraction dropped; a membership
\* without expiryDate gives moment(undefined), the current time
DiffDays(expiry, t) == IF expiry = NoDate THEN 0 ELSE (expiry - t) \div DayLen
\* the days left that the 201 response of clockIn warns about, if any
ExpiryAdvisory(expiry, t) ==
    IF DiffDays(expiry, t) <= WARNING_DAYS /\ DiffDays(expiry, t) >= 0 THEN DiffDays(expiry, t) ELSE NoAdvisory

\* the monthly limit check of clockIn
AtMonthlyLimit(count) == count >= MONTHLY_LIMIT

\* clockIn up to its first write: geofence, operating hours, membership,
\* monthly limit, expiry, existing session
ClockInStart(c, u, dist) ==
    /\ ci[c].pc = "idle"
    /\ users[u].registered
    /\ LET m == users[u]
           reset == MonthOf(now) # MonthOf(m.lastResetDate)
           mcount == IF reset THEN 0 ELSE m.monthlyDayCount
           loaded == [pc |-> "idle", u |-> u, now |-> now, dist |-> dist,
                      lcount |-> m.monthlyDayCount, reset |-> reset,
                      advisory |-> ExpiryAdvisory(m.expiryDate, now)]
           deny(code) == /\ Respond("clockIn", u, code, 0)
                         /\ UNCHANGED ci
       IN  IF ~GeofenceValid(dist) THEN deny("outOfRange")
           ELSE IF DayOfWeek(now) = SATURDAY THEN deny("closed")
           ELSE IF HourOf(now) < OPEN_HOUR \/ HourOf(now) >= CLOSE_HOUR THEN deny("closed")
           ELSE IF m.plan = "none" \/ m.status # "active" THEN deny("membershipRequired")
           ELSE IF AtMonthlyLimit(mcount) THEN deny("capExceeded")
           ELSE IF m.expiryDate # NoDate /\ now > m.expiryDate
                THEN /\ ci' = [ci EXCEPT ![c] = [loaded EXCEPT !.pc = "saveExpired"]]
                     /\ NoResponse
           ELSE IF FindOne(u, StartOfDay(now)) # 0 THEN deny("alreadyClockedIn")
           ELSE /\ RoomToCreate
                /\ ci' = [ci EXCEPT ![c] = [loaded EXCEPT !.pc = "create"]]
                /\ NoResponse
    /\ UNCHANGED <<now, ticks, users, sessions, co, aci, aco, zj, sw, manuals, ops, succ, closes, expiryLog, zones, settings, env, geo, notices, failures>>

\* user.membership.status = 'expired'; await user.save()
ClockInSaveExpired(c) ==
    /\ ci[c].pc = "saveExpired"
    /\ LET u == ci[c].u
           m == users[u]
       IN  users' = [users EXCEPT ![u] =
                [m EXCEPT !.status = "expired",
                          !.monthlyDayCount = IF ci[c].reset /\ ci[c].lcount # 0 THEN 0 ELSE @,
                          !.lastResetDate = IF ci[c].reset THEN ci[c].now ELSE @]]
    /\ Respond("clockIn", ci[c].u, "expired", 0)
    /\ ci' = [ci EXCEPT ![c] = IdleCI]
    /\ UNCHANGED <<now, ticks, sessions, co, aci, aco, zj, sw, manuals, ops, succ, closes, expiryLog, zones, settings, env, geo, notices, failures>>

\* Attendance.create(...)
ClockInCreate(c) ==
    /\ ci[c].pc = "create"
    /\ sessions' = Append(sessions, NewSession(ci[c].u, ci[c].now, ci[c].dist))
    /\ ci' = [ci EXCEPT ![c].pc = "saveUser"]
    /\ NoResponse
    /\ UNCHANGED <<now, ticks, users, co, aci, aco, zj, sw, manuals, ops, succ, closes, expiryLog, zones, settings, env, geo, notices, failures>>

\* a save that writes the status 'active' along with the count
ClockInSaveWritesStatus(c, delivered) ==
    /\ ci[c].pc = "saveUser"
    /\ LET u == ci[c].u
           m == users[u]
           mcount == IF ci[c].reset THEN 0 ELSE ci[c].lcount
       IN  /\ users' = [users EXCEPT ![u] =
                [m EXCEPT !.status = "active",
                          !.monthlyDayCount = mcount + 1,
                          !.lastResetDate = IF ci[c].reset THEN ci[c].now ELSE @]]
           /\ succ' = [succ EXCEPT ![u] =
                IF MonthOf(ci[c].now) = @.month THEN [@ EXCEPT !.n = @ + 1]
                ELSE [month |-> MonthOf(ci[c].now), n |-> 1]]
    /\ notices' = sendNotification(notices, delivered, "clock_in", ci[c].u, 0, StartOfDay(ci[c].now))
    /\ Respond("clockIn", ci[c].u, "ok", ci[c].advisory)
    /\ ci' = [ci EXCEPT ![c] = IdleCI]
    /\ UNCHANGED <<now, ticks, sessions, co, aci, aco, zj, sw, manuals, ops, closes, expiryLog, zones, settings, env, geo, failures>>

\* monthlyDayCount += 1; status = 'active'; await user.save(); then the
\* clock_in notification; 201
ClockInSaveAndNotify(c, delivered) ==
    /\ ci[c].pc = "saveUser"
    /\ LET u == ci[c].u
           m == users[u]
           mcount == IF ci[c].reset THEN 0 ELSE ci[c].lcount
       IN  /\ users' = [users EXCEPT ![u] =
                [m EXCEPT !.monthlyDayCount = mcount + 1,
                          !.lastResetDate = IF ci[c].reset THEN ci[c].now ELSE @]]
           /\ succ' = [succ EXCEPT ![u] =
                IF MonthOf(ci[c].now) = @.month THEN [@ EXCEPT !.n = @ + 1]
                ELSE [month |-> MonthOf(ci[c].now), n |-> 1]]
    /\ notices' = sendNotification(notices, delivered, "clock_in", ci[c].u, 0, StartOfDay(ci[c].now))
    /\ Respond("clockIn", ci[c].u, "ok", ci[c].advisory)
    /\ ci' = [ci EXCEPT ![c] = IdleCI]
    /\ UNCHANGED <<now, ticks, sessions, co, aci, aco, zj, sw, manuals, ops, closes, expiryLog, zones, settings, env, geo, failures>>

ClockInSaveUser(c) == ClockInSaveAndNotify(c, TRUE)
\* the same when the notification cannot be delivered
ClockInSaveUndelivered(c) == ClockInSaveAndNotify(c, FALSE)

\* user.save() throws after Attendance.create: the catch block answers 500
ClockInSaveFails(c) ==
    /\ ci[c].pc = "saveUser"
    /\ Respond("clockIn", ci[c].u, "serverError", 0)
    /\ ci' = [ci EXCEPT ![c] = IdleCI]
    /\ UNCHANGED <<now, ticks, users, sessions, co, aci, aco, zj, sw, manuals, ops, succ, closes, expiryLog, zones, settings, env, geo, notices, failures>>

ClockIn(c) ==
    \/ \E u \in Attendees, dist \in Dists : ClockInStart(c, u, dist)
    \/ ClockInSaveExpired(c)
    \/ ClockInCreate(c)
    \/ ClockInSaveUser(c)

\* ----------------------------------------------------------------- clockOut
\* clockOut without the check that the session is still open
ClockOutStartOverClosed(u, dist) ==
    /\ co.pc = "idle"
    /\ LET sid == FindOne(u, StartOfDay(now))
           deny(code, n) == /\ Respond("clockOut", u, code, n)
                            /\ UNCHANGED co
       IN  IF sid = 0 THEN deny("noSession", 0)
           ELSE IF dist # NoLoc /\ ~GeofenceValid(dist) THEN deny("outOfRange", dist)
           ELSE /\ co' = [pc |-> "save", u |-> u, now |-> now, sid |-> sid, dist |-> dist]
                /\ NoResponse
    /\ UNCHANGED <<now, ticks, users, sessions, ci, aci, aco, zj, sw, manuals, ops, succ, closes, expiryLog, zones, settings, env, geo, notices, failures>>

\* clockOut without the geofence check
ClockOutStartAnywhere(u, dist) ==
    /\ co.pc = "idle"
    /\ LET sid == FindOne(u, StartOfDay(now))
           deny(code, n) == /\ Respond("clockOut", u, code, n)
                            /\ UNCHANGED co
       IN  IF sid = 0 THEN deny("noSession", 0)
           ELSE IF sessions[sid].clockOut # NoDate THEN deny("alreadyClockedOut", 0)
           ELSE /\ co' = [pc |-> "save", u |-> u, now |-> now, sid |-> sid, dist |-> dist]
                /\ NoResponse
    /\ UNCHANGED <<now, ticks, users, sessions, ci, aci, aco, zj, sw, manuals, ops, succ, closes, expiryLog, zones, settings, env, geo, notices, failures>>

\* clockOut up to its write: today's session, already clocked out, geofence
\* (skipped when the coordinates are omitted)
ClockOutStart(u, dist) ==
    /\ co.pc = "idle"
    /\ LET sid == FindOne(u, StartOfDay(now))
           deny(code, n) == /\ Respond("clockOut", u, code, n)
                            /\ UNCHANGED co
       IN  IF sid = 0 THEN deny("noSession", 0)
           ELSE IF sessions[sid].clockOut # NoDate THEN deny("alreadyClockedOut", 0)
           ELSE IF dist # NoLoc /\ ~GeofenceValid(dist) THEN deny("outOfRange", dist)
           ELSE /\ co' = [pc |-> "save", u |-> u, now |-> now, sid |-> sid, dist |-> dist]
                /\ NoResponse
    /\ UNCHANGED <<now, ticks, users, sessions, ci, aci, aco, zj, sw, manuals, ops, succ, closes, expiryLog, zones, settings, env, geo, notices, failures>>

\* a clockOut that answers 500 and keeps the session open when the
\* notification cannot be delivered
ClockOutSaveRollsBack(delivered) ==
    /\ co.pc = "save"
    /\ sessions' = IF delivered
                   THEN [sessions EXCEPT ![co.sid] = [@ EXCEPT !.clockOut = co.now, !.clockOutLocation = "member"]]
                   ELSE sessions
    /\ notices' = sendNotification(notices, delivered, "clock_out", co.u, 0, sessions[co.sid].date)
    /\ Respond("clockOut", co.u, IF delivered THEN "ok" ELSE "serverError", co.dist)
    /\ co' = IdleCO
    /\ UNCHANGED <<now, ticks, users, ci, aci, aco, zj, sw, manuals, ops, succ, closes, expiryLog, zones, settings, env, geo, failures>>

\* attendance.clockOut = now.toDate(); await attendance.save(); then the
\* clock_out notification; 200
ClockOutSaveAndNotify(delivered) ==
    /\ co.pc = "save"
    /\ sessions' = [sessions EXCEPT ![co.sid] = [@ EXCEPT !.clockOut = co.now, !.clockOutLocation = "member"]]
    /\ notices' = sendNotification(notices, delivered, "clock_out", co.u, 0, sessions[co.sid].date)
    /\ Respond("clockOut", co.u, "ok", co.dist)
    /\ co' = IdleCO
    /\ UNCHANGED <<now, ticks, users, ci, aci, aco, zj, sw, manuals, ops, succ, closes, expiryLog, zones, settings, env, geo, failures>>

ClockOutSave == ClockOutSaveAndNotify(TRUE)
\* the same when the notification cannot be delivered
ClockOutSaveUndelivered == ClockOutSaveAndNotify(FALSE)

ClockOut ==
    \/ \E u \in Attendees, dist \in Dists \cup {NoLoc} : ClockOutStart(u, dist)
    \/ ClockOutSave

\* ------------------------------------------------------------- adminClockIn
\* an adminClockIn that refuses a member whose membership is not active
AdminClockInStartActiveOnly(u) ==
    /\ aci.pc = "idle"
    /\ users[u].registered
    /\ IF FindOne(u, StartOfDay(now)) # 0
       THEN /\ Respond("adminClockIn", u, "alreadyClockedIn", 0)
            /\ UNCHANGED aci
       ELSE IF users[u].status # "active"
       THEN /\ Respond("adminClockIn", u, "membershipRequired", 0)
            /\ UNCHANGED aci
       ELSE /\ RoomToCreate
            /\ aci' = [pc |-> "create", u |-> u, now |-> now,
                       lstatus |-> users[u].status,
                       lcount |-> users[u].monthlyDayCount,
                       lreset |-> users[u].lastResetDate]
            /\ NoResponse
    /\ UNCHANGED <<now, ticks, users, sessions, ci, co, aco, zj, sw, manuals, ops, succ, closes, expiryLog, zones, settings, env, geo, notices, failures>>

\* adminClockIn up to its first write: load the user, existing session
AdminClockInStart(u) ==
    /\ aci.pc = "idle"
    /\ users[u].registered
    /\ IF FindOne(u, StartOfDay(now)) # 0
       THEN /\ Respond("adminClockIn", u, "alreadyClockedIn", 0)
            /\ UNCHANGED aci
       ELSE /\ RoomToCreate
            /\ aci' = [pc |-> "create", u |-> u, now |-> now,
                       lstatus |-> users[u].status,
                       lcount |-> users[u].monthlyDayCount,
                       lreset |-> users[u].lastResetDate]
            /\ NoResponse
    /\ UNCHANGED <<now, ticks, users, sessions, ci, co, aco, zj, sw, manuals, ops, succ, closes, expiryLog, zones, settings, env, geo, notices, failures>>

AdminClockInCreate ==
    /\ aci.pc = "create"
    /\ sessions' = Append(sessions, NewSession(aci.u, aci.now, GYM_POSITION))
    /\ aci' = [aci EXCEPT !.pc = "saveUser"]
    /\ NoResponse
    /\ UNCHANGED <<now, ticks, users, ci, co, aco, zj, sw, manuals, ops, succ, closes, expiryLog, zones, settings, env, geo, notices, failures>>

\* the monthly count is touched only when the loaded status is 'active'; then
\* the clock_in notification
AdminClockInSaveUser ==
    /\ aci.pc = "saveUser"
    /\ LET m == users[aci.u]
           reset == MonthOf(aci.now) # MonthOf(aci.lreset)
       IN  users' = IF aci.lstatus # "active" THEN users
                    ELSE [users EXCEPT ![aci.u] =
                            [m EXCEPT !.monthlyDayCount =
                                          IF reset THEN (IF aci.lcount = 1 THEN @ ELSE 1)
                                                   ELSE aci.lcount + 1,
                                      !.lastResetDate = IF reset THEN aci.now ELSE @]]
    /\ notices' = sendNotification(notices, TRUE, "clock_in", aci.u, 0, StartOfDay(aci.now))
    /\ Respond("adminClockIn", aci.u, "ok", 0)
    /\ aci' = IdleACI
    /\ UNCHANGED <<now, ticks, sessions, ci, co, aco, zj, sw, manuals, ops, succ, closes, expiryLog, zones, settings, env, geo, failures>>

AdminClockIn ==
    \/ \E u \in Attendees : AdminClockInStart(u)
    \/ AdminClockInCreate
    \/ AdminClockInSaveUser

\* ------------------------------------------------------------ adminClockOut
\* an adminClockOut that, with no session for today, takes the member's open
\* session of an earlier day
AdminClockOutStartAnyDay(u) ==
    /\ aco.pc = "idle"
    /\ LET open == {i \in 1..Len(sessions) : sessions[i].userId = u /\ sessions[i].clockOut = NoDate}
           sid == IF FindOne(u, StartOfDay(now)) # 0 THEN FindOne(u, StartOfDay(now))
                  ELSE IF open = {} THEN 0 ELSE Min(open)
           deny(code) == /\ Respond("adminClockOut", u, code, 0)
                         /\ UNCHANGED aco
       IN  IF sid = 0 THEN deny("noSession")
           ELSE IF sessions[sid].clockOut # NoDate THEN deny("alreadyClockedOut")
           ELSE /\ aco' = [pc |-> "save", u |-> u, now |-> now, sid |-> sid, dist |-> NoLoc]
                /\ NoResponse
    /\ UNCHANGED <<now, ticks, users, sessions, ci, co, aci, zj, sw, manuals, ops, succ, closes, expiryLog, zones, settings, env, geo, notices, failures>>

\* adminClockOut up to its write: today's session, already clocked out
AdminClockOutStart(u) ==
    /\ aco.pc = "idle"
    /\ LET sid == FindOne(u, StartOfDay(now))
           deny(code) == /\ Respond("adminClockOut", u, code, 0)
                         /\ UNCHANGED aco
       IN  IF sid = 0 THEN deny("noSession")
           ELSE IF sessions[sid].clockOut # NoDate THEN deny("alreadyClockedOut")
           ELSE /\ aco' = [pc |-> "save", u |-> u, now |-> now, sid |-> sid, dist |-> NoLoc]
                /\ NoResponse
    /\ UNCHANGED <<now, ticks, users, sessions, ci, co, aci, zj, sw, manuals, ops, succ, closes, expiryLog, zones, settings, env, geo, notices, failures>>

\* attendance.save(); then the clock_out notification
AdminClockOutSave ==
    /\ aco.pc = "save"
    /\ sessions' = [sessions EXCEPT ![aco.sid] = [@ EXCEPT !.clockOut = aco.now, !.clockOutLocation = "staff"]]
    /\ notices' = sendNotification(notices, TRUE, "clock_out", aco.u, 0, sessions[aco.sid].date)
    /\ Respond("adminClockOut", aco.u, "ok", 0)
    /\ aco' = IdleCO
    /\ UNCHANGED <<now, ticks, users, ci, co, aci, zj, sw, manuals, ops, succ, closes, expiryLog, zones, settings, env, geo, failures>>

AdminClockOut ==
    \/ \E u \in Attendees : AdminClockOutStart(u)
    \/ AdminClockOutSave

\* -------------------------------------------------------------- manualClock
\* manualClock for the day `date`: overwrite the day's record if there is one,
\* else create it
ManualClockOn(u, date, cin, cout, st) ==
    /\ manuals < MaxManual
    /\ LET sid == FindOne(u, date)
       IN  IF sid # 0
           THEN sessions' = [sessions EXCEPT ![sid] =
                    [@ EXCEPT !.clockIn = cin,
                              !.clockOut = IF cout # NoDate THEN cout ELSE @,
                              !.status = IF st # NoVal THEN st ELSE @]]
           ELSE /\ RoomToCreate
                /\ sessions' = Append(sessions,
                      [userId |-> u, date |-> date, clockIn |-> cin,
                       clockOut |-> cout, status |-> IF st # NoVal THEN st ELSE "on-time",
                       location |-> GYM_POSITION, clockOutLocation |-> "none"])
    /\ manuals' = manuals + 1
    /\ Respond("manualClock", u, "ok", 0)
    /\ UNCHANGED <<now, ticks, users, ci, co, aci, aco, zj, sw, ops, succ, closes, expiryLog, zones, settings, env, geo, notices, failures>>

\* manualClock for the current day
ManualClock(u, cin, cout, st) == ManualClockOn(u, StartOfDay(now), cin, cout, st)

ManualClockAny ==
    \E u \in Attendees, cin \in {now - Hours(5)}, cout \in {NoDate, now}, st \in {NoVal, "late"} :
        ManualClock(u, cin, cout, st)

\* ------------------------------------------------ autoClockOutZombieSessions
\* a set of document ids as the list the query returns
RECURSIVE AsList(_)
AsList(S) == IF S = {} THEN <<>> ELSE <<Min(S)>> \o AsList(S \ {Min(S)})

\* the query with the comparison turned round: sessions younger than the cutoff
ZombieBatchFresh(t) ==
    AsList({i \in 1..Len(sessions) :
              sessions[i].clockOut = NoDate /\ sessions[i].clockIn > t - Hours(ZOMBIE_HOURS)})

\* Attendance.find({clockOut: {$exists: false}, clockIn: {$lt: cutoff}})
ZombieBatch(t) ==
    AsList({i \in 1..Len(sessions) :
              sessions[i].clockOut = NoDate /\ sessions[i].clockIn < t - Hours(ZOMBIE_HOURS)})

ZombieStart ==
    /\ zj.pc = "idle"
    /\ IF ZombieBatch(now) = <<>>
       THEN UNCHANGED zj
       ELSE zj' = [pc |-> "run",
                   queue |-> [k \in 1..Len(ZombieBatch(now)) |->
                                [sid |-> ZombieBatch(now)[k],
                                 clockIn |-> sessions[ZombieBatch(now)[k]].clockIn]]]
    /\ NoResponse
    /\ UNCHANGED <<now, ticks, users, sessions, ci, co, aci, aco, sw, manuals, ops, succ, closes, expiryLog, zones, settings, env, geo, notices, failures>>

\* moment(session.clockIn).add(4, 'hours')
\* closing at the time of the run's cutoff instead of 4 hours after the clock-in
AutoClockOutAtCutoff(clockIn) == now - Hours(ZOMBIE_HOURS)

AutoClockOutTime(clockIn) == clockIn + Hours(ZOMBIE_HOURS)

\* a save that writes the whole document the job loaded, the clockIn included
ZombieSaveWholeDocument(delivered) ==
    /\ zj.pc = "run"
    /\ LET e == Head(zj.queue)
       IN  /\ sessions' = [sessions EXCEPT ![e.sid] =
                            [@ EXCEPT !.clockIn = e.clockIn, !.clockOut = AutoClockOutTime(e.clockIn)]]
           /\ closes' = [closes EXCEPT ![e.sid] = @ + 1]
           /\ notices' = sendNotification(notices, delivered, "system", sessions[e.sid].userId, 0, sessions[e.sid].date)
    /\ zj' = IF Len(zj.queue) = 1 THEN IdleZJ ELSE [zj EXCEPT !.queue = Tail(@)]
    /\ NoResponse
    /\ UNCHANGED <<now, ticks, users, ci, co, aci, aco, sw, manuals, ops, succ, expiryLog, zones, settings, env, geo, failures>>

\* session.clockOut = autoClockOutTime; await session.save(); then the
\* auto clock-out notification to the member of the session
ZombieSaveAndNotify(delivered) ==
    /\ zj.pc = "run"
    /\ LET e == Head(zj.queue)
       IN  /\ sessions' = [sessions EXCEPT ![e.sid].clockOut = AutoClockOutTime(e.clockIn)]
           /\ closes' = [closes EXCEPT ![e.sid] = @ + 1]
           /\ notices' = sendNotification(notices, delivered, "system", sessions[e.sid].userId, 0, sessions[e.sid].date)
    /\ zj' = IF Len(zj.queue) = 1 THEN IdleZJ ELSE [zj EXCEPT !.queue = Tail(@)]
    /\ NoResponse
    /\ UNCHANGED <<now, ticks, users, ci, co, aci, aco, sw, manuals, ops, succ, expiryLog, zones, settings, env, geo, failures>>

ZombieSave == ZombieSaveAndNotify(TRUE)
\* the same when the notification cannot be delivered
ZombieSaveUndelivered == ZombieSaveAndNotify(FALSE)

ZombieJob ==
    \/ ZombieStart
    \/ ZombieSave

\* ---------------------------------------------------------- expireMemberships
UserOrder == <<"m1", "m2">>

\* the day before which a membership's expiry makes the sweep select it
\* a cutoff one day early
SweepCutoffYesterday(t) == StartOfDay(t) - DayLen

SweepCutoff(t) == StartOfDay(t)

\* User.find({'membership.status': 'active', 'membership.expiryDate': {$lt: today}})
SweepSelects(m, t) ==
    m.registered /\ m.status = "active" /\ m.expiryDate # NoDate /\ m.expiryDate < SweepCutoff(t)
SweepBatch(t) == SelectSeq(UserOrder, LAMBDA u : SweepSelects(users[u], t))

\* the store as the run's own writes alone would have left it
SweepExpected(p) ==
    [u \in Users |-> IF u \in sw[p].done THEN [sw[p].snap[u] EXCEPT !.status = "expired"]
                     ELSE sw[p].snap[u]]

SweepStart(p) ==
    /\ sw[p].pc = "idle"
    /\ IF SweepBatch(now) = <<>>
       THEN /\ UNCHANGED sw
            /\ Respond("expireMemberships", "m1", "clean", 0)
       ELSE /\ sw' = [sw EXCEPT ![p] = [pc |-> "run", now |-> now, queue |-> SweepBatch(now),
                                        snap |-> users, done |-> {}, moved |-> {}]]
            /\ NoResponse
    /\ UNCHANGED <<now, ticks, users, sessions, ci, co, aci, aco, zj, manuals, ops, succ, closes, expiryLog, zones, settings, env, geo, notices, failures>>

\* user.membership.status = 'expired'; await user.save(); then the
\* membership_expired notification to the member; after the last member the
\* notice to the staff with the size of the batch.  `moved` keeps the members
\* whose status this run has changed.
SweepSaveAndNotify(p, delivered) ==
    /\ sw[p].pc = "run"
    /\ LET u == Head(sw[p].queue)
           moved == IF users[u].status = "active" THEN sw[p].moved \cup {u} ELSE sw[p].moved
           told == sendNotification(notices, delivered, "membership_expired", u, 0, sw[p].now)
       IN  /\ users' = [users EXCEPT ![u].status = "expired"]
           /\ notices' = IF Len(sw[p].queue) = 1
                         THEN sendNotification(told, delivered, "membership_expired", Staff,
                                               Cardinality(sw[p].done) + 1, sw[p].now)
                         ELSE told
           /\ expiryLog' = [expiryLog EXCEPT ![u] =
                  [notified |-> @.notified + 1,
                   expired |-> @.expired + (IF users[u].status = "active" THEN 1 ELSE 0)]]
           /\ IF Len(sw[p].queue) = 1
              THEN /\ sw' = [sw EXCEPT ![p] = IdleSW]
                   /\ Respond("expireMemberships", u,
                              IF users = SweepExpected(p) THEN "clean" ELSE "dirty",
                              Cardinality(sw[p].done) + 1)
              ELSE /\ sw' = [sw EXCEPT ![p] = [@ EXCEPT !.queue = Tail(@), !.done = @ \cup {u}, !.moved = moved]]
                   /\ NoResponse
    /\ UNCHANGED <<now, ticks, sessions, ci, co, aci, aco, zj, manuals, ops, succ, closes, zones, settings, env, geo, failures>>

SweepSave(p) == SweepSaveAndNotify(p, TRUE)
\* the same when the notifications cannot be delivered
SweepSaveUndelivered(p) == SweepSaveAndNotify(p, FALSE)

Sweep(p) ==
    \/ SweepStart(p)
    \/ SweepSave(p)

\* ------------------------------------------------------- failures in a job
\* Each job runs inside one try/catch that logs the error and returns.  The
\* awaits that can reject are the queries and the saves: sendNotification
\* catches its own errors.  A failure is recorded with the job, the time, what
\* was left of the batch, and whether the other job was in the middle of a run.
Failure(job, left, during) ==
    [nth |-> Cardinality(failures) + 1, job |-> job, at |-> now, left |-> left, during |-> during]
FailureRoom == Cardinality(failures) < MaxFailures

\* a failure of the sweep that also undoes what the run had saved
SweepFailsUndoes(p) ==
    /\ FailureRoom
    /\ sw[p].pc = "run"
    /\ failures' = failures \cup {Failure("expireMemberships", Len(sw[p].queue), zj.pc)}
    /\ users' = [u \in Users |-> IF u \in sw[p].done THEN sw[p].snap[u] ELSE users[u]]
    /\ sw' = [sw EXCEPT ![p] = IdleSW]
    /\ Respond("expireMemberships", "m1", "errorLogged", Cardinality(sw[p].done))
    /\ UNCHANGED <<now, ticks, sessions, ci, co, aci, aco, zj, manuals, ops, succ, closes, expiryLog, zones, settings, env, geo, notices>>

\* expireMemberships: User.find or a user.save() rejects; the catch block logs
SweepFails(p) ==
    /\ FailureRoom
    /\ failures' = failures \cup {Failure("expireMemberships", Len(sw[p].queue), zj.pc)}
    /\ sw' = [sw EXCEPT ![p] = IdleSW]
    /\ Respond("expireMemberships", "m1", "errorLogged", Cardinality(sw[p].done))
    /\ UNCHANGED <<now, ticks, users, sessions, ci, co, aci, aco, zj, manuals, ops, succ, closes, expiryLog, zones, settings, env, geo, notices>>

\* a failure of the stale-session job that takes the process down, and with
\* it the sweep that was running
ZombieFailsAborts ==
    /\ FailureRoom
    /\ failures' = failures \cup {Failure("autoClockOutZombieSessions", Len(zj.queue), sw[1].pc)}
    /\ zj' = IdleZJ
    /\ sw' = [p \in SweepProcs |-> IdleSW]
    /\ Respond("autoClockOutZombieSessions", "m1", "thrown", 0)
    /\ UNCHANGED <<now, ticks, users, sessions, ci, co, aci, aco, manuals, ops, succ, closes, expiryLog, zones, settings, env, geo, notices>>

\* autoClockOutZombieSessions: Attendance.find or a session.save() rejects;
\* the catch block logs
ZombieFails ==
    /\ FailureRoom
    /\ failures' = failures \cup {Failure("autoClockOutZombieSessions", Len(zj.queue), sw[1].pc)}
    /\ zj' = IdleZJ
    /\ Respond("autoClockOutZombieSessions", "m1", "errorLogged", 0)
    /\ UNCHANGED <<now, ticks, users, sessions, ci, co, aci, aco, sw, manuals, ops, succ, closes, expiryLog, zones, settings, env, geo, notices>>

\* ------------------------------------------------------ membership requests
LedgerFrame == UNCHANGED <<now, ticks, sessions, ci, co, aci, aco, zj, sw, manuals, succ, closes, expiryLog, zones, settings, env, geo, notices, failures>>

\* register: the membership the new user document starts with
Register(u, requested) ==
    /\ ops < MaxOps
    /\ ~users[u].registered
    /\ users' = [users EXCEPT ![u] =
            IF requested = "none" THEN DefaultMembership(now)
            ELSE IF requested = "admission" THEN Membership("none", "active", now, 0, now)
            ELSE Membership(requested, "active", AddPlan(now, requested), 0, now)]
    /\ ops' = ops + 1
    /\ Respond("register", u, "ok", 0)
    /\ LedgerFrame

\* a plan request without the check for a pending request
RequestPlanOverPending(u, plan) ==
    /\ ops < MaxOps
    /\ users[u].registered
    /\ LET m == users[u]
       IN  IF m.status = "active" /\ m.expiryDate # NoDate /\ m.expiryDate > now
           THEN /\ Respond("requestPlan", u, "conflictActive", 0)
                /\ UNCHANGED users
           ELSE /\ users' = [users EXCEPT ![u] =
                      Membership(plan, "pending", AddPlan(now, plan), m.monthlyDayCount, m.lastResetDate)]
                /\ Respond("requestPlan", u, "ok", 0)
    /\ ops' = ops + 1
    /\ LedgerFrame

\* updateMembership of the auth controller: a member requests a plan
RequestPlan(u, plan) ==
    /\ ops < MaxOps
    /\ users[u].registered
    /\ LET m == users[u]
       IN  IF m.status = "active" /\ m.expiryDate # NoDate /\ m.expiryDate > now
           THEN /\ Respond("requestPlan", u, "conflictActive", 0)
                /\ UNCHANGED users
           ELSE IF m.status = "pending"
           THEN /\ Respond("requestPlan", u, "conflictPending", 0)
                /\ UNCHANGED users
           ELSE /\ users' = [users EXCEPT ![u] =
                      Membership(plan, "pending", AddPlan(now, plan), m.monthlyDayCount, m.lastResetDate)]
                /\ Respond("requestPlan", u, "ok", 0)
    /\ ops' = ops + 1
    /\ LedgerFrame

\* approveMembership: user.membership.status = 'active'
ApproveMembership(u) ==
    /\ ops < MaxOps
    /\ IF ~users[u].registered
       THEN /\ Respond("approveMembership", u, "notFound", 0)
            /\ UNCHANGED users
       ELSE /\ users' = [users EXCEPT ![u].status = "active"]
            /\ Respond("approveMembership", u, "ok", 0)
    /\ ops' = ops + 1
    /\ LedgerFrame

\* a payment whose period always starts now
AddTransactionFromNow(u, type, plan) ==
    /\ ops < MaxOps
    /\ users[u].registered
    /\ LET m == users[u]
       IN  users' = [users EXCEPT ![u] =
              IF type = "subscription" /\ plan # NoVal
              THEN Membership(plan, "active", AddPlan(now, plan), m.monthlyDayCount, m.lastResetDate)
              ELSE IF type = "registration" /\ m.plan = "none"
              THEN Membership("none", "pending", now, 0, now)
              ELSE m]
    /\ ops' = ops + 1
    /\ Respond("addTransaction", u, "ok", 0)
    /\ LedgerFrame

\* addTransaction with category 'income' for a user
AddTransaction(u, type, plan) ==
    /\ ops < MaxOps
    /\ users[u].registered
    /\ LET m == users[u]
           start == IF m.status = "active" /\ m.expiryDate # NoDate /\ m.expiryDate > now
                    THEN m.expiryDate ELSE now
       IN  users' = [users EXCEPT ![u] =
              IF type = "subscription" /\ plan # NoVal
              THEN Membership(plan, "active", AddPlan(start, plan), m.monthlyDayCount, m.lastResetDate)
              ELSE IF type = "registration" /\ m.plan = "none"
              THEN Membership("none", "pending", now, 0, now)
              ELSE m]
    /\ ops' = ops + 1
    /\ Respond("addTransaction", u, "ok", 0)
    /\ LedgerFrame

\* createMembership of the admin controller
AdminCreateMembership(u, plan, expiry) ==
    /\ ops < MaxOps
    /\ users[u].registered
    /\ users' = [users EXCEPT ![u] =
            Membership(plan, "active", IF expiry # NoDate THEN expiry ELSE now + MonthLen, 0, now)]
    /\ ops' = ops + 1
    /\ Respond("createMembership", u, "ok", 0)
    /\ LedgerFrame

\* updateMembership of the admin controller: only the fields that are given
AdminUpdateMembership(u, plan, expiry, status) ==
    /\ ops < MaxOps
    /\ users[u].registered
    /\ users' = [users EXCEPT ![u] =
            [@ EXCEPT !.plan = IF plan # NoVal THEN plan ELSE @,
                      !.expiryDate = IF expiry # NoDate THEN expiry ELSE @,
                      !.status = IF status # NoVal THEN status ELSE @]]
    /\ ops' = ops + 1
    /\ Respond("updateMembership", u, "ok", 0)
    /\ LedgerFrame

\* expireMembership of the admin controller
AdminExpireMembership(u) ==
    /\ ops < MaxOps
    /\ users[u].registered
    /\ users' = [users EXCEPT ![u] = [@ EXCEPT !.status = "expired", !.expiryDate = now]]
    /\ ops' = ops + 1
    /\ Respond("expireMembership", u, "ok", 0)
    /\ LedgerFrame

AdminUpdates ==
    {<<NoVal, NoDate, "active">>, <<NoVal, NoDate, "pending">>, <<"3-month", now + DayLen, NoVal>>}

RegisterAny == \E u \in Users, r \in {"none", "admission"} \cup Plans : Register(u, r)
RequestPlanAny == \E u \in Users, p \in Plans : RequestPlan(u, p)
ApproveAny == \E u \in Users : ApproveMembership(u)
AddTransactionAny ==
    \E u \in Users, x \in {<<"subscription", p>> : p \in Plans} \cup {<<"registration", NoVal>>} :
        AddTransaction(u, x[1], x[2])
AdminCreateAny == \E u \in Users, x \in {<<"1-month", NoDate>>, <<"none", NoDate>>, <<"3-month", now + DayLen>>} :
                      AdminCreateMembership(u, x[1], x[2])
AdminUpdateAny == \E u \in Users, x \in AdminUpdates : AdminUpdateMembership(u, x[1], x[2], x[3])
AdminExpireAny == \E u \in Users : AdminExpireMembership(u)

\* ----------------------------------------------------------- specifications
\* concurrent clock-ins of one member
NextClockIn ==
    \/ Tick
    \/ \E c \in ClockInProcs : ClockIn(c)
    \/ AdminClockIn

SpecClockIn == InitClockIn /\ [][NextClockIn]_vars

\* the life of a session: created, closed by the member, by staff or by the job
NextSession ==
    \/ Tick
    \/ ClockIn(1)
    \/ ClockOut
    \/ AdminClockOut
    \/ ManualClockAny
    \/ ZombieJob

SpecSession == InitSession /\ [][NextSession]_vars

\* the membership ledger: requests, payments, staff edits, the sweep, clock-in
NextLedger ==
    \/ Tick
    \/ ClockIn(1)
    \/ Sweep(1)
    \/ RegisterAny
    \/ RequestPlanAny
    \/ ApproveAny
    \/ AddTransactionAny
    \/ AdminCreateAny
    \/ AdminUpdateAny
    \/ AdminExpireAny

SpecLedger == InitLedger /\ [][NextLedger]_vars

\* the stale-session job among the requests that close sessions: member and
\* staff clock-outs, and manual entries that carry a clockOut
ManualClockClosed ==
    \E u \in Attendees, cin \in {now - Hours(5)}, st \in {NoVal, "late"} :
        ManualClock(u, cin, now, st)

NextZombie ==
    \/ Tick
    \/ ClockIn(1)
    \/ ClockOut
    \/ AdminClockOut
    \/ ManualClockClosed
    \/ ZombieJob

SpecZombie == InitSession /\ [][NextZombie]_vars

\* the live requests, once started, run to completion; the clock advances;
\* the hourly cron keeps firing the stale-session job
FairSpecZombie ==
    /\ SpecZombie
    /\ SF_vars(Tick)
    /\ WF_vars(ZombieStart) /\ WF_vars(ZombieSave)
    /\ WF_vars(ClockInCreate(1)) /\ WF_vars(ClockInSaveUser(1)) /\ WF_vars(ClockInSaveExpired(1))
    /\ WF_vars(ClockOutSave) /\ WF_vars(AdminClockOutSave)

\* the same without the manual entries: the sessions members open, the ways
\* they are closed, and the hourly job
NextStale ==
    \/ Tick
    \/ ClockIn(1)
    \/ ClockOut
    \/ AdminClockOut
    \/ ZombieJob

SpecStale == InitSession /\ [][NextStale]_vars

FairSpecStale ==
    /\ SpecStale
    /\ SF_vars(Tick)
    /\ WF_vars(ZombieStart) /\ WF_vars(ZombieSave)
    /\ WF_vars(ClockInCreate(1)) /\ WF_vars(ClockInSaveUser(1)) /\ WF_vars(ClockInSaveExpired(1))
    /\ WF_vars(ClockOutSave) /\ WF_vars(AdminClockOutSave)

\* the expiration sweep run by two schedulers at once, with payments in between
NextSweep ==
    \/ Tick
    \/ \E p \in SweepProcs : Sweep(p)
    \/ AddTransactionAny

SpecSweep == InitLedger /\ [][NextSweep]_vars

\* the membership cycle: registration, plan requests, approvals, payments and
\* staff edits
NextMembership ==
    \/ Tick
    \/ RegisterAny
    \/ RequestPlanAny
    \/ ApproveAny
    \/ AddTransactionAny
    \/ AdminCreateAny
    \/ AdminUpdateAny
    \/ AdminExpireAny

SpecMembership == InitMembership /\ [][NextMembership]_vars

\* one member's clock-ins, one request at a time, where the store may fail the
\* save of the member
NextEntry ==
    \/ Tick
    \/ ClockIn(1)
    \/ ClockInSaveFails(1)

SpecEntry == InitClockIn /\ [][NextEntry]_vars

\* ------------------------------------------------------------ entry gate
\* clock-ins by the member and by staff under other settings than the
\* defaults: a schedule that closes the gym on Sunday, an office day that
\* starts at 10:30 with 5 minutes of grace, memberships about to run out
SundayClosed ==
    [exists |-> TRUE, operatingHours |-> [DefaultHours EXCEPT ![0].isOpen = FALSE]]
Schedules == {DefaultSettings, SundayClosed}
LateEnv == [startHour |-> 10, startMinute |-> 30, lateThreshold |-> 5]
Envs == {DefaultEnv, LateEnv}
GateDay == StartOfDay(StartTime)
GateTimes == {GateDay + Hours(9) + 15, GateDay + Hours(9) + 16,
              GateDay + Hours(10) + 35, GateDay + Hours(10) + 36}
GateExpiries == {GateDay + DayLen + Hours(12), GateDay + 3 * DayLen + Hours(9) + 15,
                 GateDay + 3 * DayLen + Hours(12), GateDay + 4 * DayLen + Hours(12)}
InitGate ==
    InitConfigured({[u \in Users |-> IF u = "m1" THEN Membership("1-month", "active", e, 0, StartTime)
                                     ELSE Unregistered] : e \in GateExpiries},
                   GateTimes, {<<>>}, Schedules, Envs)

NextGate ==
    \/ Tick
    \/ ClockIn(1)
    \/ AdminClockIn

SpecGate == InitGate /\ [][NextGate]_vars

\* ------------------------------------------------------ notification jobs
NoticeRoom(type) == Cardinality({x \in notices : x.type = type}) < MaxNotices

\* User.find: active members whose expiryDate lies on the day `days` from t
ExpiringUsers(t, days) ==
    {u \in Users : /\ users[u].registered /\ users[u].status = "active"
                   /\ users[u].expiryDate # NoDate
                   /\ users[u].expiryDate >= StartOfDay(t + days * DayLen)
                   /\ users[u].expiryDate < StartOfDay(t + days * DayLen) + DayLen}

\* the notices after sendExpiryWarnings has gone through one target
WarnTarget(N, t, days) ==
    N \cup {Notice(N, "expiry_warning", u, days, users[u].expiryDate) : u \in ExpiringUsers(t, days)}

\* sendExpiryWarnings: the 3-day target, then the 1-day target.  The job
\* writes no membership; it reads the members once per target.
SendExpiryWarnings ==
    /\ NoticeRoom("expiry_warning")
    /\ notices' = WarnTarget(WarnTarget(notices, now, 3), now, 1)
    /\ Respond("sendExpiryWarnings", "m1", "done",
               Cardinality(ExpiringUsers(now, 3)) + Cardinality(ExpiringUsers(now, 1)))
    /\ UNCHANGED <<now, ticks, users, sessions, ci, co, aci, aco, zj, sw, manuals, ops, succ, closes, expiryLog, zones, settings, env, geo, failures>>

\* the day check of sendMorningGreetings: the stored operating hours, or
\* Saturday when no settings document exists
GreetingDay(t) ==
    IF settings.exists THEN settings.operatingHours[DayOfWeek(t)].isOpen
    ELSE DayOfWeek(t) # SATURDAY
ActiveUsers == {u \in Users : users[u].registered /\ users[u].status = "active"}

\* sendMorningGreetings
SendMorningGreetings ==
    /\ NoticeRoom("auto_greeting")
    /\ IF ~GreetingDay(now)
       THEN /\ Respond("sendMorningGreetings", "m1", "skipped", 0)
            /\ UNCHANGED notices
       ELSE IF ActiveUsers = {}
       THEN /\ Respond("sendMorningGreetings", "m1", "nobody", 0)
            /\ UNCHANGED notices
       ELSE /\ notices' = notices \cup {Notice(notices, "auto_greeting", u, 0, StartOfDay(now)) : u \in ActiveUsers}
            /\ Respond("sendMorningGreetings", "m1", "done", Cardinality(ActiveUsers))
    /\ UNCHANGED <<now, ticks, users, sessions, ci, co, aci, aco, zj, sw, manuals, ops, succ, closes, expiryLog, zones, settings, env, geo, failures>>

\* members whose memberships run out one day and three days from the start,
\* under the default schedule, a Sunday-closed one, or no settings document
NoSettings == [exists |-> FALSE, operatingHours |-> DefaultHours]
WarnedMember(days) == Membership("1-month", "active", StartTime + days * DayLen, 0, StartTime)
InitNotices ==
    InitConfigured({[u \in Users |-> IF u = "m1" THEN WarnedMember(3) ELSE x] :
                      x \in {Unregistered, WarnedMember(1), WarnedMember(4)}},
                   {StartTime}, {<<>>}, {DefaultSettings, SundayClosed, NoSettings}, {DefaultEnv})

NextNotices ==
    \/ Tick
    \/ SendExpiryWarnings
    \/ SendMorningGreetings
    \/ AdminExpireAny

SpecNotices == InitNotices /\ [][NextNotices]_vars

\* ------------------------------------------------ the reconciliation jobs
\* the two jobs over two lapsed members and two sessions left open yesterday,
\* where a query or a save may fail
StaleSession(u) ==
    [userId |-> u, date |-> StartOfDay(StartTime - DayLen), clockIn |-> StartTime - DayLen,
     clockOut |-> NoDate, status |-> "on-time", location |-> GYM_RADIUS_METERS,
     clockOutLocation |-> "none"]
InitJobs ==
    InitStored({[u \in Users |-> LapsedMember]}, {<<StaleSession("m1"), StaleSession("m2")>>},
               {StartTime}, {<<>>}, {DefaultSettings}, {DefaultEnv})

NextJobs ==
    \/ Tick
    \/ ZombieJob
    \/ ZombieFails
    \/ Sweep(1)
    \/ SweepFails(1)

SpecJobs == InitJobs /\ [][NextJobs]_vars

\* ------------------------------------------------------------- geofence
\* validateGeofence asked about one point, over every small Location store
InitGeofence ==
    InitConfigured({[u \in Users |-> IF u = "m1" THEN InitMember1(0) ELSE Unregistered]},
                   {StartTime}, LocationStores, {DefaultSettings}, {DefaultEnv})

Validate(p) ==
    /\ LET answer == validateGeofence(zones, p)
       IN  geo' = [p |-> p, isValid |-> answer.isValid, distance |-> answer.distance, asked |-> TRUE]
    /\ NoResponse
    /\ UNCHANGED <<now, ticks, users, sessions, ci, co, aci, aco, zj, sw, manuals, ops, succ, closes, expiryLog, zones, settings, env, notices, failures>>

NextGeofence == \E p \in Points : Validate(p)

SpecGeofence == InitGeofence /\ [][NextGeofence]_vars

\* ---------------------------------------------------------- notifications
\* the four operations that notify after their write, where a notification
\* may fail to be delivered
NextDispatch ==
    \/ Tick
    \/ ClockIn(1)
    \/ ClockInSaveUndelivered(1)
    \/ ClockOut
    \/ ClockOutSaveUndelivered
    \/ ZombieJob
    \/ ZombieSaveUndelivered
    \/ Sweep(1)
    \/ SweepSaveUndelivered(1)

SpecDispatch == InitLedger /\ [][NextDispatch]_vars

\* ---------------------------------------------------- clock-in and expiry
\* a member clocking in while the sweep, staff and payments write the
\* membership: active, lapsed since yesterday, expired or pending at the start
NextReentry ==
    \/ Tick
    \/ ClockIn(1)
    \/ Sweep(1)
    \/ AdminExpireAny
    \/ AddTransactionAny

InitReentry ==
    InitWith({[u \in Users |-> IF u = "m1" THEN x ELSE Unregistered] :
                x \in {InitMember1(0), LapsedMember, ExpiredMember, PendingMember}})

SpecReentry == InitReentry /\ [][NextReentry]_vars

\* --------------------------------------------------- sessions left open
\* a session across the change of day: the member's and the staff's
\* clock-outs, the hourly job, and a manual entry for the day before
ManualClockPast ==
    \E u \in Attendees, st \in {NoVal} :
        ManualClockOn(u, StartOfDay(now) - DayLen, now - DayLen, now - DayLen + Hours(1), st)

NextOvernight ==
    \/ Tick
    \/ ClockIn(1)
    \/ ClockOut
    \/ AdminClockOut
    \/ ZombieJob
    \/ ManualClockPast

SpecOvernight == InitSession /\ [][NextOvernight]_vars

\* ------------------------------------------------------- the front desk
\* staff clocking a member in, and the member's own clock-in, for a member in
\* any stage of the membership, at the monthly limit, in and out of the
\* opening hours and on the closed day
DeskTimes == {StartTime, StartOfDay(StartTime) + Hours(22), StartTime - DayLen}
DeskMembers ==
    {InitMember1(0), InitMember1(MONTHLY_LIMIT), LapsedMember, ExpiredMember, PendingMember,
     DefaultMembership(StartTime)}
InitDesk ==
    InitConfigured({[u \in Users |-> IF u = "m1" THEN x ELSE Unregistered] : x \in DeskMembers},
                   DeskTimes, {<<>>}, {DefaultSettings}, {DefaultEnv})

NextDesk ==
    \/ Tick
    \/ ClockIn(1)
    \/ AdminClockIn

SpecDesk == InitDesk /\ [][NextDesk]_vars

\* ------------------------------------------------------------------- claims
Registered(u) == users[u].registered
ZombieWrites == zj.pc = "run" /\ zj' # zj
SweepWrites == sw[1].pc = "run" /\ sw'[1] # sw[1]

\* C1: in every reachable state there is at most one attendance session per
\* member and day, also when clock-ins of the member run concurrently
C1_OneSessionPerMemberDay ==
    \A i, j \in 1..Len(sessions) :
        (sessions[i].userId = sessions[j].userId /\ sessions[i].date = sessions[j].date) => i = j

\* C2: a member whose membership status is active has a plan other than none
\* and an expiry date
C2_ActiveHasPlanAndExpiry ==
    \A u \in Users :
        (Registered(u) /\ users[u].status = "active") =>
            (users[u].plan # "none" /\ users[u].expiryDate # NoDate)

\* C3: a member with status active has a monthly usage count of at most 26
C3_ActiveCountWithinCap ==
    \A u \in Users :
        (Registered(u) /\ users[u].status = "active") => users[u].monthlyDayCount <= MONTHLY_LIMIT

\* C4: the expiration sweep never writes expired over a membership that, when
\* the sweep writes, is active with an expiry date not before now
C4_SweepKeepsRenewal ==
    [][SweepWrites =>
          LET u == Head(sw[1].queue)
          IN  (users[u].status = "active" /\ users[u].expiryDate >= sw[1].now) =>
                  users'[u].status # "expired"]_vars

\* C5: once the clockOut of a session is set, no step changes it
C5_ClockOutImmutable ==
    [][\A i \in 1..Len(sessions) :
          sessions[i].clockOut # NoDate => sessions'[i].clockOut = sessions[i].clockOut]_vars

\* C6: when the stale-session job writes a session that a live clockOut or
\* adminClockOut has closed since the job read it, the session keeps the
\* clockOut of the live request
C6_JobKeepsLiveClockOut ==
    [][ZombieWrites =>
          LET sid == Head(zj.queue).sid
          IN  (sessions[sid].clockOut # NoDate /\ sessions[sid].clockOutLocation \in {"member", "staff"}) =>
                  sessions'[sid].clockOut = sessions[sid].clockOut]_vars

\* C7: a member has at most 26 successful clock-ins in a calendar month (the
\* 27th attempt of the month is refused)
C7_AtMostCapClockInsPerMonth ==
    \A u \in Users : succ[u].n <= MONTHLY_LIMIT

\* C8: the stale-session job selects exactly the sessions without clockOut
\* whose clockIn is more than 4 hours old, closes such a session with
\* clockOut = clockIn + 4 hours and nothing else changed, closes no session
\* twice, and a later run does not select a session that has a clockOut
C8_StaleClosedOnce ==
    /\ [](\A i \in 1..Len(sessions) : closes[i] <= 1)
    /\ [][(zj.pc = "idle" /\ zj'.pc = "run") =>
             /\ \A k \in 1..Len(zj'.queue) :
                    /\ sessions[zj'.queue[k].sid].clockOut = NoDate
                    /\ sessions[zj'.queue[k].sid].clockIn < now - Hours(4)
             /\ \A i \in 1..Len(sessions) :
                    (sessions[i].clockOut = NoDate /\ sessions[i].clockIn < now - Hours(4)) =>
                        \E k \in 1..Len(zj'.queue) : zj'.queue[k].sid = i]_vars
    /\ [][ZombieWrites =>
             LET e == Head(zj.queue)
             IN  /\ \A i \in 1..Len(sessions) : i # e.sid => sessions'[i] = sessions[i]
                 /\ (sessions[e.sid].clockOut = NoDate /\ sessions[e.sid].clockIn = e.clockIn) =>
                        sessions'[e.sid] = [sessions[e.sid] EXCEPT !.clockOut = sessions[e.sid].clockIn + Hours(4)]]_vars

\* a session has been closed by the job, 4 hours after its clock-in
C8_Witness ==
    \E i \in 1..Len(sessions) :
        closes[i] = 1 /\ sessions[i].clockOut = sessions[i].clockIn + Hours(4)

\* C9: with the job firing and the clock advancing, a session without clockOut
\* eventually has one, whether or not the member ever clocks out
C9_OpenEventuallyClosed ==
    \A i \in 1..(MaxSessions + 1) :
        (i <= Len(sessions) /\ sessions[i].clockOut = NoDate /\ ticks < MaxTicks)
            ~> (i <= Len(sessions) /\ sessions[i].clockOut # NoDate)

\* a session that nobody clocked out of has been closed by the job
C9_Witness ==
    \E i \in 1..Len(sessions) :
        closes[i] = 1 /\ sessions[i].clockOut # NoDate /\ sessions[i].clockOutLocation = "none"

\* C10 as stated: after a run of the sweep that no other write interleaved
\* with, no member is active with an expiry date before now
C10_NoActivePastNow ==
    (resp.op = "expireMemberships" /\ resp.code = "clean") =>
        \A u \in Users :
            ~(Registered(u) /\ users[u].status = "active"
              /\ users[u].expiryDate # NoDate /\ users[u].expiryDate < now)

\* C10 amended: after such a run no member is active with an expiry date
\* before the start of the current day
C10_NoActivePastToday ==
    (resp.op = "expireMemberships" /\ resp.code = "clean") =>
        \A u \in Users :
            ~(Registered(u) /\ users[u].status = "active"
              /\ users[u].expiryDate # NoDate /\ users[u].expiryDate < StartOfDay(now))

\* a run of the sweep has completed undisturbed and has expired a member
C10_Witness ==
    /\ resp.op = "expireMemberships" /\ resp.code = "clean" /\ resp.n >= 1
    /\ users[resp.u].status = "expired" /\ users[resp.u].expiryDate < StartOfDay(now)

\* C11: the sweep sends a member at most one expiry notification per
\* active-to-expired transition it makes, and none to a member who is already
\* expired, also when runs of the sweep overlap
C11_OneNoticePerExpiry ==
    \A u \in Users : expiryLog[u].notified <= expiryLog[u].expired

C13_RenewalFromExpiry ==
    [][resp'.op \in {"requestPlan", "addTransaction"} =>
          LET m == users[resp'.u]
              m2 == users'[resp'.u]
          IN  (m.status = "active" /\ m.expiryDate > now /\ m2 # m /\ m2.plan # "none") =>
                  m2.expiryDate = m.expiryDate + PlanMonths(m2.plan) * MonthLen]_vars

\* a payment has extended a membership that was still running: its expiry date
\* lies more than the plan's duration ahead
C13_Witness ==
    /\ resp.op = "addTransaction"
    /\ users[resp.u].status = "active"
    /\ users[resp.u].expiryDate > now + PlanMonths(users[resp.u].plan) * MonthLen

\* C14: approveMembership changes a member only from pending, with a plan other
\* than none, to active; otherwise it fails and changes nothing
C14_ApproveOnlyPending ==
    [][resp'.op = "approveMembership" =>
          LET m == users[resp'.u]
          IN  IF Registered(resp'.u) /\ m.status = "pending" /\ m.plan # "none"
              THEN users' = [users EXCEPT ![resp'.u].status = "active"]
              ELSE resp'.code # "ok" /\ users' = users]_vars

\* C15: the status of a membership changes only from pending to active, from
\* active to expired and from expired to pending
C15_StatusCycle ==
    [][\A u \in Users :
          (Registered(u) /\ users'[u].status # users[u].status) =>
              \/ users[u].status = "pending" /\ users'[u].status = "active"
              \/ users[u].status = "active" /\ users'[u].status = "expired"
              \/ users[u].status = "expired" /\ users'[u].status = "pending"]_vars

\* the facility's hours as clockIn checks them
FacilityOpen(t) == DayOfWeek(t) # SATURDAY /\ HourOf(t) >= OPEN_HOUR /\ HourOf(t) < CLOSE_HOUR
\* the monthly count of a member as a request at time t sees it
CountAt(m, t) == IF MonthOf(t) # MonthOf(m.lastResetDate) THEN 0 ELSE m.monthlyDayCount

\* C16: whenever clockIn creates a session, the location is inside a valid
\* zone, the facility is open, the member's plan is not none, the status is
\* active, the expiry date is not before now, the monthly count is below 26
\* and the member has no session for the day
C16_NoSilentEntry ==
    [][\A c \in ClockInProcs :
          (ci[c].pc = "create" /\ ci'[c].pc = "saveUser") =>
              LET m == users[ci[c].u]
                  t == ci[c].now
              IN  /\ GeofenceValid(ci[c].dist)
                  /\ FacilityOpen(t)
                  /\ m.plan # "none" /\ m.status = "active"
                  /\ ~(m.expiryDate # NoDate /\ m.expiryDate < t)
                  /\ CountAt(m, t) < MONTHLY_LIMIT
                  /\ FindOne(ci[c].u, StartOfDay(t)) = 0]_vars

\* C17: a clockIn of a member who is active with a plan and an expiry date
\* before now, during open hours, is refused only for its location or as
\* expired, and otherwise goes on to store the status expired
C17_LapsedMemberExpired ==
    [][\A u \in Attendees :
          (Registered(u) /\ users[u].status = "active" /\ users[u].plan # "none"
           /\ users[u].expiryDate # NoDate /\ users[u].expiryDate < now /\ FacilityOpen(now)) =>
              /\ (resp'.op = "clockIn" /\ resp'.u = u /\ \A c \in ClockInProcs : ci[c].pc = "idle") =>
                     resp'.code = "outOfRange"
              /\ \A c \in ClockInProcs :
                     (ci[c].pc = "idle" /\ ci'[c].pc # "idle" /\ ci'[c].u = u) =>
                         ci'[c].pc = "saveExpired"]_vars

\* C18: when a clockIn that has created its session returns, the member's
\* monthly count is one more than it was (counted from 0 in a new month)
C18_SessionAndCountTogether ==
    [][(ci[1].pc = "saveUser" /\ ci'[1].pc = "idle") =>
          users'[ci[1].u].monthlyDayCount = CountAt(users[ci[1].u], ci[1].now) + 1]_vars

\* a clockOut request is being answered or passed on to its write
ClockOutChecks == co.pc = "idle" /\ (resp'.op = "clockOut" \/ co'.pc = "save")
ClockOutMember == IF co'.pc = "save" THEN co'.u ELSE resp'.u

\* C19: clockOut goes on to its write only for a session of the member for
\* today that has no clockOut; with no session for today it fails with
\* noSession, with today's session closed it fails with alreadyClockedOut, and
\* a clockOut that fails modifies no session
C19_ClockOutNeedsOpenSession ==
    [][ClockOutChecks =>
          LET sid == FindOne(ClockOutMember, StartOfDay(now))
          IN  /\ sessions' = sessions
              /\ sid = 0 => (resp'.code = "noSession" /\ co' = co)
              /\ (sid # 0 /\ sessions[sid].clockOut # NoDate) =>
                     (resp'.code = "alreadyClockedOut" /\ co' = co)
              /\ co'.pc = "save" =>
                     (sid # 0 /\ co'.sid = sid /\ sessions[sid].clockOut = NoDate)]_vars

\* a clockOut was refused because today's session is closed already
C19_Witness ==
    /\ resp.op = "clockOut" /\ resp.code = "alreadyClockedOut"
    /\ \E i \in 1..Len(sessions) :
           sessions[i].userId = resp.u /\ sessions[i].date = StartOfDay(now) /\ sessions[i].clockOut # NoDate

ActiveZones == {i \in 1..Len(zones) : zones[i].isActive}
ZoneDistances == {Abs(zones[i].pos - geo.p) : i \in ActiveZones}
InsideSomeZone == \E i \in ActiveZones : Abs(zones[i].pos - geo.p) <= zones[i].radius * 10

\* C21 as stated: with an active zone, a point is accepted exactly when some
\* active zone has it within its radius, and a rejection reports the least
\* distance over the active zones
C21_ReportsLeastDistance ==
    (geo.asked /\ ActiveZones # {}) =>
        /\ geo.isValid <=> InsideSomeZone
        /\ ~geo.isValid => geo.distance * 10 = Min(ZoneDistances)

\* C21: with an active zone, a point is accepted exactly when some active zone
\* has it within its radius (the radius itself included), and a rejection
\* reports the least distance over the active zones rounded to whole metres
C21_ReportsRoundedLeastDistance ==
    (geo.asked /\ ActiveZones # {}) =>
        /\ geo.isValid <=> InsideSomeZone
        /\ ~geo.isValid => geo.distance = (Min(ZoneDistances) + 5) \div 10

\* a point between two active zones, outside both, at a fraction of a metre
C21_Witness ==
    /\ geo.asked /\ Cardinality(ActiveZones) = 2 /\ ~geo.isValid
    /\ Cardinality(ZoneDistances) = 2
    /\ Min(ZoneDistances) % 10 # 0

\* C23: with no active zone in the store, a point is accepted exactly when it
\* is within 100 m of the hardcoded gym
C23_FallsBackToHardcodedGym ==
    (geo.asked /\ ActiveZones = {}) => (geo.isValid <=> Abs(geo.p) <= 1000)

\* a point exactly 100 m from the gym, asked about while every zone is inactive
C23_Witness ==
    /\ geo.asked /\ ActiveZones = {} /\ Len(zones) > 0
    /\ geo.p = 1000 /\ geo.isValid

\* C22: with no zone configured every location is refused, so clockIn creates
\* no session
C22_NoZonesNoSession ==
    [][\A c \in ClockInProcs :
          (ci[c].pc = "create" /\ ci'[c].pc = "saveUser") => Len(zones) > 0]_vars

\* the configured schedule has the gym open at time t
ScheduleOpen(t) ==
    LET day == settings.operatingHours[DayOfWeek(t)]
    IN  day.isOpen /\ day.openTime <= t % DayLen /\ t % DayLen < day.closeTime

\* C24: clockIn answers "closed" only at a time the configured schedule marks
\* closed, and goes on to create a session only at a time it marks open
C24_ClosedBySchedule ==
    [][/\ (resp'.op = "clockIn" /\ resp'.code = "closed") => ~ScheduleOpen(now)
       /\ \A c \in ClockInProcs :
             (ci[c].pc = "idle" /\ ci'[c].pc = "create") => ScheduleOpen(now)]_vars

C26_AdvisoryWithinThreeDays ==
    [][(resp'.op = "clockIn" /\ resp'.code = "ok") =>
          (resp'.n # NoAdvisory <=> users[resp'.u].expiryDate - ci[1].now <= 3 * DayLen)]_vars

\* C27: no member gets a second expiry warning for the same threshold and
\* expiry date, whatever runs of the job there are, and no run sends a member
\* two expiry warnings
C27_OneWarningPerThreshold ==
    [][/\ \A x \in notices' : x.type = "expiry_warning" => x.n = 1
       /\ \A u \in Users :
             Cardinality({x \in notices' \ notices : x.type = "expiry_warning" /\ x.u = u}) <= 1]_vars

\* C28: no member gets the greeting twice on one calendar day, and no greeting
\* goes out on a day the stored schedule marks as closed
C28_OneGreetingPerDay ==
    \A x \in notices :
        x.type = "auto_greeting" =>
            /\ x.n = 1
            /\ settings.exists => settings.operatingHours[DayOfWeek(x.about)].isOpen

\* the records a running job has still to write
QueuedSessions == {zj.queue[k].sid : k \in 1..Len(zj.queue)}
QueuedUsers(p) == {sw[p].queue[k] : k \in 1..Len(sw[p].queue)}
JobFailed == failures' # failures
FailedJob == (CHOOSE f \in failures' \ failures : TRUE).job

\* C29: a failure inside a job is caught and logged, leaves every record and
\* the other job's run as they were, and a running job writes only records of
\* its own batch
C29_FailureStaysInsideJob ==
    [][/\ JobFailed =>
             /\ resp'.code = "errorLogged"
             /\ users' = users /\ sessions' = sessions
             /\ FailedJob = "autoClockOutZombieSessions" => sw' = sw
             /\ FailedJob = "expireMemberships" => zj' = zj
       /\ (zj.pc = "run" /\ zj' # zj) =>
             /\ users' = users /\ sw' = sw
             /\ \A i \in 1..Len(sessions) : i \notin QueuedSessions => sessions'[i] = sessions[i]
       /\ (sw[1].pc = "run" /\ sw'[1] # sw[1]) =>
             /\ sessions' = sessions /\ zj' = zj
             /\ \A u \in Users : u \notin QueuedUsers(1) => users'[u] = users[u]]_vars

\* the stale-session job failed while the sweep was in the middle of its
\* batch, and the sweep has gone on to finish it
C29_Witness ==
    /\ \E f \in failures : f.job = "autoClockOutZombieSessions" /\ f.during = "run" /\ f.at = now
    /\ resp.op = "expireMemberships" /\ resp.code = "clean" /\ resp.n = 2
    /\ \A u \in Users : users[u].status = "expired"

\* C30: a job that fails leaves the records it has written in their new state
\* and the others untouched, and the next run that gets through leaves every
\* record the failed run was to write as an unbroken run would have: each
\* session open for more than 4 hours closed 4 hours after its clock-in, each
\* membership that ran out before today expired
C30_ResumedRunFinishes ==
    [][/\ JobFailed => (users' = users /\ sessions' = sessions)
       /\ (zj.pc = "run" /\ zj'.pc = "idle" /\ ~JobFailed) =>
             \A i \in 1..Len(sessions) :
                 sessions[i].clockIn + 240 < now => sessions'[i].clockOut = sessions[i].clockIn + 240
       /\ (sw[1].pc = "run" /\ sw'[1].pc = "idle" /\ ~JobFailed) =>
             \A u \in Users :
                 (users[u].registered /\ users[u].expiryDate # NoDate
                    /\ users[u].expiryDate < (now \div 1440) * 1440) => users'[u].status = "expired"]_vars

\* the stale-session job failed with one of two sessions closed, and a run at
\* a later time has closed the other
C30_Witness ==
    /\ \E f \in failures : f.job = "autoClockOutZombieSessions" /\ f.left = 1 /\ f.at < now
    /\ zj.pc = "idle"
    /\ \A i \in 1..Len(sessions) : sessions[i].clockOut = sessions[i].clockIn + 240
    /\ \A i \in 1..Len(sessions) : closes[i] = 1

\* the session of member u for the day `date`, as a set of indices
SessionOn(S, u, date) == {i \in 1..Len(S) : S[i].userId = u /\ S[i].date = date}

\* C31: clockIn, clockOut, the sweep and the stale-session job have written
\* their change when they notify: the step that notifies, delivered or not,
\* leaves the change in the store and answers success, and every notice that
\* appears is about a change that is in the store
C31_PersistedBeforeNotice ==
    [][/\ (ci[1].pc = "saveUser" /\ ci'[1].pc = "idle") =>
             /\ SessionOn(sessions', ci[1].u, StartOfDay(ci[1].now)) # {}
             /\ users'[ci[1].u].monthlyDayCount = (IF ci[1].reset THEN 0 ELSE ci[1].lcount) + 1
             /\ resp'.code = "ok"
       /\ (co.pc = "save" /\ co'.pc = "idle") =>
             /\ sessions'[co.sid].clockOut = co.now
             /\ resp'.code = "ok"
       /\ (sw[1].pc = "run" /\ sw'[1] # sw[1]) =>
             /\ users'[Head(sw[1].queue)].status = "expired"
             /\ resp'.code \in {"none", "clean", "dirty"}
       /\ (zj.pc = "run" /\ zj' # zj) =>
             sessions'[Head(zj.queue).sid].clockOut = Head(zj.queue).clockIn + Hours(4)
       /\ \A x \in notices' \ notices :
             /\ x.type = "clock_in" => SessionOn(sessions', x.u, x.about) # {}
             /\ x.type \in {"clock_out", "system"} =>
                    \E i \in SessionOn(sessions', x.u, x.about) : sessions'[i].clockOut # NoDate
             /\ (x.type = "membership_expired" /\ x.u \in Users) => users'[x.u].status = "expired"]_vars

\* a member has clocked out and got the success answer while the clock_out
\* notification was not delivered
C31_Witness ==
    /\ resp.op = "clockOut" /\ resp.code = "ok"
    /\ \E i \in 1..Len(sessions) :
           /\ sessions[i].userId = resp.u /\ sessions[i].clockOut = now
           /\ sessions[i].clockOutLocation = "member"
           /\ \A x \in notices : ~(x.type = "clock_out" /\ x.u = resp.u /\ x.about = sessions[i].date)

\* the notices a step adds, of one type to one recipient
NewNotices(type, u) == {x \in notices' \ notices : x.type = type /\ x.u = u}

\* C32: a run of the sweep sends a member one expiry notification exactly when
\* it moves that member from active to expired, and at its end one notice to
\* the staff exactly when it has moved at least one member
C32_NoticePerTransition ==
    [][\A p \in SweepProcs :
          (sw[p].pc = "run" /\ sw'[p] # sw[p]) =>
              LET u == Head(sw[p].queue)
                  moved == IF users[u].status = "active" THEN sw[p].moved \cup {u} ELSE sw[p].moved
              IN  /\ Cardinality(NewNotices("membership_expired", u)) =
                         (IF users[u].status = "active" THEN 1 ELSE 0)
                  /\ Cardinality(NewNotices("membership_expired", Staff)) =
                         (IF sw'[p].pc = "idle" /\ moved # {} THEN 1 ELSE 0)]_vars

\* the member's count after a clock-in at time t, against the stored member
CountedOnce(u, t) ==
    IF MonthOf(t) # MonthOf(users[u].lastResetDate)
    THEN users'[u].monthlyDayCount = 1 /\ users'[u].lastResetDate = t
    ELSE /\ users'[u].monthlyDayCount = users[u].monthlyDayCount + 1
         /\ users'[u].lastResetDate = users[u].lastResetDate

\* C33: a successful clockIn, or adminClockIn of an active member, leaves the
\* monthly count at 1 and lastResetDate at now when now is in another month
\* than lastResetDate, and otherwise adds one to the count and keeps
\* lastResetDate
C33_CountFollowsMonth ==
    [][/\ \A c \in ClockInProcs :
             (ci[c].pc = "saveUser" /\ ci'[c].pc = "idle" /\ resp'.code = "ok") =>
                 CountedOnce(ci[c].u, ci[c].now)
       /\ (aci.pc = "saveUser" /\ aci'.pc = "idle" /\ users[aci.u].status = "active") =>
             CountedOnce(aci.u, aci.now)]_vars

\* C34: the status of a session is on-time or late, and once the session
\* exists no step changes it
C34_StatusFixedAtClockIn ==
    /\ [](\A i \in 1..Len(sessions) : sessions[i].status \in {"on-time", "late"})
    /\ [][\A i \in 1..Len(sessions) : sessions'[i].status = sessions[i].status]_vars

\* C35: no step of clockIn changes a status that is expired or pending, so a
\* membership expired between clockIn's read and its save is expired when
\* clockIn has answered
C35_ClockInNeverReactivates ==
    [][ci' # ci =>
          \A u \in Users :
              users[u].status \in {"expired", "pending"} => users'[u].status = users[u].status]_vars

\* clockIn has answered 201 for a member whose membership was expired after
\* clockIn had read it
C35_Witness ==
    /\ resp.op = "clockIn" /\ resp.code = "ok"
    /\ users[resp.u].status = "expired"
    /\ SessionOn(sessions, resp.u, StartOfDay(now)) # {}

\* C36: a clockIn that is refused creates no session and leaves every member
\* as stored, except that the refusal as expired may set the status of the
\* member to expired and nothing else
C36_DeniedClockInChangesNothing ==
    [][(resp'.op = "clockIn" /\ resp'.code \notin {"ok", "none"}) =>
          /\ sessions' = sessions
          /\ \A u \in Users :
                 \/ users'[u] = users[u]
                 \/ /\ resp'.code = "expired" /\ u = resp'.u
                    /\ users'[u] = [users[u] EXCEPT !.status = "expired"]]_vars

\* sessions of an earlier day that are still open
OpenFromEarlierDay == {i \in 1..Len(sessions) : sessions[i].date < StartOfDay(now) /\ sessions[i].clockOut = NoDate}

\* C37: clockOut and adminClockOut look for the session of the current day
\* only: with none they answer noSession whatever was left open before, and a
\* session left open on an earlier day gets its clockOut from the
\* stale-session job or from manualClock and from no other step
C37_EarlierDayNotClosedByClockOut ==
    [][/\ (resp'.op \in {"clockOut", "adminClockOut"} /\ FindOne(resp'.u, StartOfDay(now)) = 0) =>
             resp'.code = "noSession"
       /\ \A i \in OpenFromEarlierDay :
             sessions'[i].clockOut # NoDate =>
                 ((zj.pc = "run" /\ zj' # zj) \/ resp'.op = "manualClock")]_vars

\* the staff's clock-out was refused for want of a session today while the
\* member's session of the day before was open
C37_Witness ==
    /\ resp.op = "adminClockOut" /\ resp.code = "noSession"
    /\ \E i \in OpenFromEarlierDay : sessions[i].userId = resp.u

\* an adminClockIn request is being answered or passed on to its writes
AdminClockInChecks == aci.pc = "idle" /\ (resp'.op = "adminClockIn" \/ aci'.pc = "create")
AdminClockInMember == IF aci'.pc = "create" THEN aci'.u ELSE resp'.u

C39_JobWritesOnlyClockOut ==
    [][/\ (zj.pc = "idle" /\ zj'.pc = "run") =>
             \A i \in 1..Len(sessions) :
                 (sessions[i].clockOut # NoDate \/ sessions[i].clockIn >= now - Hours(ZOMBIE_HOURS)) =>
                     i \notin {zj'.queue[k].sid : k \in 1..Len(zj'.queue)}
       /\ (zj.pc = "run" /\ zj' # zj) =>
             /\ users' = users
             /\ Len(sessions') = Len(sessions)
             /\ \A i \in 1..Len(sessions) :
                    IF i = Head(zj.queue).sid
                    THEN /\ sessions'[i].clockIn = sessions[i].clockIn
                         /\ sessions'[i].date = sessions[i].date
                         /\ sessions'[i].status = sessions[i].status
                         /\ sessions'[i].location = sessions[i].location
                         /\ sessions'[i].userId = sessions[i].userId
                    ELSE sessions'[i] = sessions[i]]_vars

\* the job has closed the session a member left open the day before, and the
\* session the member closed today is as the member left it
C39_Witness ==
    \E i, j \in 1..Len(sessions) :
        /\ closes[i] = 1 /\ sessions[i].clockOut = sessions[i].clockIn + Hours(ZOMBIE_HOURS)
        /\ sessions[i].location = 100 /\ sessions[i].date < sessions[j].date
        /\ closes[j] = 0 /\ sessions[j].clockOutLocation = "member" /\ sessions[j].clockOut # NoDate

====
